---- MODULE Spec2Model ----
(***************************************************************************)
(* Model of the Modular-Service-Framework (src/app.py, src/run.py):        *)
(* the ServiceRegistry metaclass, the BaseService lifecycle, the Typed     *)
(* descriptor / ServerConfig holder and the ServiceManager.                *)
(***************************************************************************)
EXTENDS Integers, Sequences, FiniteSets, TLC

VARIABLES
    classes,    \* every class object created through the metaclass, in creation order
    registry,   \* ServiceRegistry.registry: insertion-ordered dict, as a sequence of entries
    cfgs,       \* the ServerConfig objects alive: each one's instance __dict__
    heap,       \* the service objects constructed so far
    instances,  \* ServiceManager.instances: a sequence of object ids
    trace,      \* what the program did so far: calls, lifecycle invocations, printed lines
    scopes,     \* the objects of the with statements whose body is running, innermost last
    last        \* the most recent operation: its arguments and its outcome

vars == <<classes, registry, cfgs, heap, instances, trace, scopes, last>>

(***************************************************************************)
(* Bounds of the model.                                                    *)
(***************************************************************************)
MaxDefs == 3      \* class definitions executed
MaxCfgs == 1      \* ServerConfig objects constructed
MaxOps == 3       \* manager calls, service calls and with statements executed
MaxScopes == 1    \* with statements nested in one another

(***************************************************************************)
(* Python values that reach the typed fields.                              *)
(***************************************************************************)
StrVal(s) == [t |-> "str", s |-> s, n |-> 0]
IntVal(n) == [t |-> "int", s |-> "", n |-> n]
BoolVal(n) == [t |-> "bool", s |-> "", n |-> n]
NoneVal == [t |-> "NoneType", s |-> "", n |-> 0]

HostInputs == {StrVal("localhost"), StrVal("example.org"), StrVal(""), IntVal(8000), NoneVal}
PortInputs == {IntVal(8000), IntVal(25), IntVal(-1), BoolVal(1), StrVal("8000"), NoneVal}

\* issubclass(t, expected) for the types above: bool is a subclass of int.
IsSubclass(t, expected) == t = expected \/ (t = "bool" /\ expected = "int")

\* isinstance(value, expected_type)
IsInstance(value, expected) == IsSubclass(value.t, expected)

Digit(d) == <<"0", "1", "2", "3", "4", "5", "6", "7", "8", "9">>[d + 1]

RECURSIVE Decimal(_)
Decimal(n) == IF n < 10 THEN Digit(n) ELSE Decimal(n \div 10) \o Digit(n % 10)

\* format(value, "") as an f-string replacement field renders it.
Format(value) ==
    CASE value.t = "str" -> value.s
      [] value.t = "int" -> IF value.n < 0 THEN "-" \o Decimal(-value.n) ELSE Decimal(value.n)
      [] value.t = "bool" -> IF value.n = 0 THEN "False" ELSE "True"
      [] OTHER -> "None"

(***************************************************************************)
(* Outcome records. exc = "" is a normal return.                           *)
(***************************************************************************)
NoLast == [op |-> "", name |-> "", cfg |-> 0, val |-> NoneVal, val2 |-> NoneVal,
           exc |-> "", msg |-> "", ret |-> 0]

(***************************************************************************)
(* ServiceRegistry: the metaclass and its registry dict.                   *)
(***************************************************************************)
ClassNames == {"BaseService", "TestService", "EmailService", "NotificationService"}

\* The class bodies of app.py a definition can carry (its hooks and constructor).
Bodies == {"BaseService", "TestService", "EmailService", "NotificationService"}

RegistryNames(reg) == {reg[i].name : i \in 1..Len(reg)}

\* registry.get(name): the class id, or 0 for an absent key.
RegistryGet(reg, name) ==
    IF name \in RegistryNames(reg)
    THEN reg[CHOOSE i \in 1..Len(reg) : reg[i].name = name].cls
    ELSE 0

\* registry[name] = new_class on an insertion-ordered dict.
DictSet(reg, name, cls) ==
    IF name \in RegistryNames(reg)
    THEN [i \in 1..Len(reg) |->
            IF reg[i].name = name THEN [name |-> name, cls |-> cls] ELSE reg[i]]
    ELSE Append(reg, [name |-> name, cls |-> cls])

\* __new__ registering with setdefault: the first class of a name stays.
ServiceRegistry__new__keeping_first(reg, name, cls) ==
    IF name # "BaseService" /\ name \notin RegistryNames(reg)
    THEN DictSet(reg, name, cls)
    ELSE reg

\* ServiceRegistry.__new__: the registry after creating class `cls` named `name`.
ServiceRegistry__new__(reg, name, cls) ==
    IF name # "BaseService" THEN DictSet(reg, name, cls) ELSE reg

\* A class statement `class name(...)` with the given body.
DefineClass(name, body) ==
    /\ Len(classes) < MaxDefs
    /\ classes' = Append(classes, [name |-> name, body |-> body])
    /\ registry' = ServiceRegistry__new__(registry, name, Len(classes) + 1)
    /\ last' = [NoLast EXCEPT !.op = "class", !.name = name, !.ret = Len(classes) + 1]
    /\ UNCHANGED <<cfgs, heap, instances, trace, scopes>>

(***************************************************************************)
(* Typed descriptor and ServerConfig.                                      *)
(***************************************************************************)
ExpectedType(field) == IF field = "host" THEN "str" ELSE "int"

\* __set__ without the isinstance check.
Typed__set__unchecked(dict, field, value) ==
    [dict |-> [dict EXCEPT ![field] = value], exc |-> "", msg |-> ""]

\* __set__ storing the value before it checks the type.
Typed__set__storing_first(dict, field, value) ==
    IF ~IsInstance(value, ExpectedType(field))
    THEN [dict |-> [dict EXCEPT ![field] = value], exc |-> "TypeError",
          msg |-> "Expected <class '" \o ExpectedType(field) \o "'> for " \o field]
    ELSE [dict |-> [dict EXCEPT ![field] = value], exc |-> "", msg |-> ""]

\* Typed.__set__: the instance __dict__ afterwards and the exception raised.
Typed__set__(dict, field, value) ==
    IF ~IsInstance(value, ExpectedType(field))
    THEN [dict |-> dict, exc |-> "TypeError",
          msg |-> "Expected <class '" \o ExpectedType(field) \o "'> for " \o field]
    ELSE [dict |-> [dict EXCEPT ![field] = value], exc |-> "", msg |-> ""]

\* Typed.__get__
Typed__get__(dict, field) == dict[field]

\* The instance __dict__ before __init__ has run: no key is set.
Unset == [t |-> "unset", s |-> "", n |-> 0]
EmptyDict == [host |-> Unset, port |-> Unset]

\* ServerConfig.__init__(host, port): host is assigned first, then port.
ServerConfig__init__(host, port) ==
    LET h == Typed__set__(EmptyDict, "host", host)
        p == Typed__set__(h.dict, "port", port)
    IN IF h.exc # "" THEN h ELSE p

\* config = ServerConfig(host, port)
NewConfig(host, port) ==
    LET r == ServerConfig__init__(host, port)
    IN /\ Len(cfgs) < MaxCfgs
       /\ cfgs' = IF r.exc = "" THEN Append(cfgs, r.dict) ELSE cfgs
       /\ last' = [NoLast EXCEPT !.op = "ServerConfig", !.val = host, !.val2 = port,
                                 !.exc = r.exc, !.msg = r.msg,
                                 !.ret = IF r.exc = "" THEN Len(cfgs) + 1 ELSE 0]
       /\ UNCHANGED <<classes, registry, heap, instances, trace, scopes>>

\* config.host = value / config.port = value
SetField(c, field, value) ==
    LET r == Typed__set__(cfgs[c], field, value)
    IN /\ cfgs' = [cfgs EXCEPT ![c] = r.dict]
       /\ last' = [NoLast EXCEPT !.op = "set", !.name = field, !.cfg = c, !.val = value,
                                 !.exc = r.exc, !.msg = r.msg]
       /\ UNCHANGED <<classes, registry, heap, instances, trace, scopes>>

\* config.host / config.port
GetField(c, field) ==
    /\ last' = [NoLast EXCEPT !.op = "get", !.name = field, !.cfg = c,
                              !.val = Typed__get__(cfgs[c], field)]
    /\ UNCHANGED <<classes, registry, cfgs, heap, instances, trace, scopes>>

(***************************************************************************)
(* Service objects: BaseService and its subclasses.                        *)
(***************************************************************************)
ClassOf(h, o) == classes[h[o].cls]

\* Trace entries.
Call(op) == [k |-> "call", o |-> 0, s |-> op]
Return(op) == [k |-> "return", o |-> 0, s |-> op]
Raise(op) == [k |-> "raise", o |-> 0, s |-> op]
Invoke(method, o) == [k |-> method, o |-> o, s |-> ""]
Line(o, line) == [k |-> "print", o |-> o, s |-> line]

Ok(ev) == [ev |-> ev, exc |-> "", msg |-> ""]

\* LoggerMixin.log
Log(o, message) == Line(o, "[LOG]: " \o message)

\* self.config.host / self.config.port read inside a service: config None has neither.
HasConfig(h, o) == h[o].config # 0

RECURSIVE Start(_, _), Stop(_, _)

\* on_startup with NotificationService starting its dependency before it logs.
OnStartupDependencyFirst(h, o) ==
    CASE ClassOf(h, o).body = "TestService" ->
           Ok(<<Line(o, "TestService is starting up...")>>)
      [] ClassOf(h, o).body = "EmailService" ->
           Ok(<<Line(o, "Connecting to SMTP...")>>)
      [] ClassOf(h, o).body = "FailingService" ->
           [ev |-> <<>>, exc |-> "RuntimeError", msg |-> "startup failed"]
      [] ClassOf(h, o).body = "NotificationService" ->
           IF ~HasConfig(h, o)
           THEN [ev |-> <<>>, exc |-> "AttributeError",
                 msg |-> "'NoneType' object has no attribute 'host'"]
           ELSE LET line == Log(o, "Notification service running at "
                                   \o Format(Typed__get__(cfgs[h[o].config], "host"))
                                   \o ":"
                                   \o Format(Typed__get__(cfgs[h[o].config], "port")))
                    dep == Start(h, h[o].email)
                IN IF dep.exc # "" THEN dep ELSE [dep EXCEPT !.ev = dep.ev \o <<line>>]
      [] OTHER -> Ok(<<>>)

\* TestService.on_startup, EmailService.on_startup, NotificationService.on_startup
\* and the BaseService default, chosen by the class body of object o. The body
\* "FailingService" is a subclass defined outside app.py whose hooks raise.
OnStartup(h, o) ==
    CASE ClassOf(h, o).body = "TestService" ->
           Ok(<<Line(o, "TestService is starting up...")>>)
      [] ClassOf(h, o).body = "EmailService" ->
           Ok(<<Line(o, "Connecting to SMTP...")>>)
      [] ClassOf(h, o).body = "FailingService" ->
           [ev |-> <<>>, exc |-> "RuntimeError", msg |-> "startup failed"]
      [] ClassOf(h, o).body = "NotificationService" ->
           IF ~HasConfig(h, o)
           THEN [ev |-> <<>>, exc |-> "AttributeError",
                 msg |-> "'NoneType' object has no attribute 'host'"]
           ELSE LET line == Log(o, "Notification service running at "
                                   \o Format(Typed__get__(cfgs[h[o].config], "host"))
                                   \o ":"
                                   \o Format(Typed__get__(cfgs[h[o].config], "port")))
                    dep == Start(h, h[o].email)
                IN [dep EXCEPT !.ev = <<line>> \o dep.ev]
      [] OTHER -> Ok(<<>>)

\* on_shutdown with NotificationService stopping the first EmailService the manager
\* built instead of its own dependency.
OnShutdownSharedEmail(h, o) ==
    CASE ClassOf(h, o).body = "TestService" ->
           Ok(<<Line(o, "TestService is shutting down...")>>)
      [] ClassOf(h, o).body = "EmailService" ->
           Ok(<<Line(o, "Closing SMTP...")>>)
      [] ClassOf(h, o).body = "FailingService" ->
           [ev |-> <<>>, exc |-> "RuntimeError", msg |-> "shutdown failed"]
      [] ClassOf(h, o).body = "NotificationService" ->
           LET shared == {q \in 1..Len(h) : h[q].cls = h[h[o].email].cls}
               dep == Stop(h, CHOOSE q \in shared : \A x \in shared : q <= x)
           IN [dep EXCEPT !.ev = <<Log(o, "Notification stopping...")>> \o dep.ev]
      [] OTHER -> Ok(<<>>)

\* on_shutdown with NotificationService stopping its dependency only when that
\* dependency was started before.
OnShutdownGuarded(h, o) ==
    CASE ClassOf(h, o).body = "TestService" ->
           Ok(<<Line(o, "TestService is shutting down...")>>)
      [] ClassOf(h, o).body = "EmailService" ->
           Ok(<<Line(o, "Closing SMTP...")>>)
      [] ClassOf(h, o).body = "FailingService" ->
           [ev |-> <<>>, exc |-> "RuntimeError", msg |-> "shutdown failed"]
      [] ClassOf(h, o).body = "NotificationService" ->
           LET dep == IF \E p \in 1..Len(trace) : trace[p] = Invoke("start", h[o].email)
                      THEN Stop(h, h[o].email)
                      ELSE Ok(<<>>)
           IN [dep EXCEPT !.ev = <<Log(o, "Notification stopping...")>> \o dep.ev]
      [] OTHER -> Ok(<<>>)

\* TestService.on_shutdown, EmailService.on_shutdown, NotificationService.on_shutdown
\* and the BaseService default.
OnShutdown(h, o) ==
    CASE ClassOf(h, o).body = "TestService" ->
           Ok(<<Line(o, "TestService is shutting down...")>>)
      [] ClassOf(h, o).body = "EmailService" ->
           Ok(<<Line(o, "Closing SMTP...")>>)
      [] ClassOf(h, o).body = "FailingService" ->
           [ev |-> <<>>, exc |-> "RuntimeError", msg |-> "shutdown failed"]
      [] ClassOf(h, o).body = "NotificationService" ->
           LET dep == Stop(h, h[o].email)
           IN [dep EXCEPT !.ev = <<Log(o, "Notification stopping...")>> \o dep.ev]
      [] OTHER -> Ok(<<>>)

\* BaseService.start: on_startup, then the "<Name> started." line.
Start(h, o) ==
    LET hook == OnStartup(h, o)
    IN IF hook.exc # ""
       THEN [hook EXCEPT !.ev = <<Invoke("start", o)>> \o hook.ev]
       ELSE Ok(<<Invoke("start", o)>> \o hook.ev
               \o <<Line(o, ClassOf(h, o).name \o " started.")>>)

\* stop printing its "<Name> stopped." line before it runs on_shutdown.
StopAnnouncingFirst(h, o) ==
    LET hook == OnShutdown(h, o)
    IN [hook EXCEPT !.ev = <<Invoke("stop", o), Line(o, ClassOf(h, o).name \o " stopped.")>>
                            \o hook.ev]

\* BaseService.stop: on_shutdown, then the "<Name> stopped." line.
Stop(h, o) ==
    LET hook == OnShutdown(h, o)
    IN IF hook.exc # ""
       THEN [hook EXCEPT !.ev = <<Invoke("stop", o)>> \o hook.ev]
       ELSE Ok(<<Invoke("stop", o)>> \o hook.ev
               \o <<Line(o, ClassOf(h, o).name \o " stopped.")>>)

\* Positional arguments (besides self) the constructor of a class body accepts:
\* BaseService.__init__(config=None) and NotificationService.__init__(config, email_service).
MinArgs(body) == IF body = "NotificationService" THEN 2 ELSE 0
MaxArgs(body) == IF body = "NotificationService" THEN 2 ELSE 1

\* The qualified name of the __init__ a class runs: its own when its body defines one
\* (the bodies of BaseService and NotificationService do), else the one it inherits
\* from BaseService.
InitName(cls) ==
    (IF classes[cls].body \in {"BaseService", "NotificationService"}
     THEN classes[cls].name
     ELSE "BaseService") \o ".__init__()"

\* The text of the TypeError Python raises for a call of __init__ with nargs positional
\* arguments besides self.
ArityError(cls, nargs) ==
    IF classes[cls].body = "NotificationService"
    THEN CASE nargs = 0 ->
                InitName(cls) \o " missing 2 required positional arguments: "
                              \o "'config' and 'email_service'"
           [] nargs = 1 ->
                InitName(cls) \o " missing 1 required positional argument: 'email_service'"
           [] OTHER ->
                InitName(cls) \o " takes 3 positional arguments but "
                              \o Decimal(nargs + 1) \o " were given"
    ELSE InitName(cls) \o " takes from 1 to 2 positional arguments but "
                       \o Decimal(nargs + 1) \o " were given"

\* cls(config) or cls(config, email): the heap afterwards, the new object and the exception.
Construct(h, cls, nargs, config, email) ==
    IF nargs < MinArgs(classes[cls].body) \/ nargs > MaxArgs(classes[cls].body)
    THEN [heap |-> h, ret |-> 0, exc |-> "TypeError", msg |-> ArityError(cls, nargs)]
    ELSE [heap |-> Append(h, [cls |-> cls, config |-> config, email |-> email]),
          ret |-> Len(h) + 1, exc |-> "", msg |-> ""]

(***************************************************************************)
(* ServiceManager.                                                         *)
(***************************************************************************)
\* get_service handing out an instance it already built for that class, when there is one.
get_service_cached(h, name, config) ==
    LET cls == RegistryGet(registry, name)
        built == {o \in 1..Len(h) : h[o].cls = cls}
    IN IF cls # 0
       THEN IF built # {}
            THEN [heap |-> h, ret |-> CHOOSE o \in built : \A q \in built : o <= q,
                  exc |-> "", msg |-> ""]
            ELSE Construct(h, cls, 1, config, 0)
       ELSE [heap |-> h, ret |-> 0, exc |-> "KeyError",
             msg |-> "Service '" \o name \o "' not found"]

\* get_service returning None for an absent name instead of raising.
get_service_none(h, name, config) ==
    LET cls == RegistryGet(registry, name)
    IN IF cls # 0
       THEN Construct(h, cls, 1, config, 0)
       ELSE [heap |-> h, ret |-> 0, exc |-> "", msg |-> ""]

\* ServiceManager.get_service
get_service(h, name, config) ==
    LET cls == RegistryGet(registry, name)
    IN IF cls # 0
       THEN Construct(h, cls, 1, config, 0)
       ELSE [heap |-> h, ret |-> 0, exc |-> "KeyError",
             msg |-> "Service '" \o name \o "' not found"]

RECURSIVE LoadFromKeepingDependency(_, _, _, _)
\* load_services that also appends the email dependency it built to instances.
LoadFromKeepingDependency(i, h, inst, config) ==
    IF i > Len(registry)
    THEN [heap |-> h, instances |-> inst, exc |-> "", msg |-> ""]
    ELSE IF registry[i].name = "NotificationService"
         THEN LET email_svc == get_service(h, "EmailService", config)
                  made == Construct(email_svc.heap, registry[i].cls, 2, config, email_svc.ret)
              IN IF email_svc.exc # ""
                 THEN [heap |-> email_svc.heap, instances |-> inst,
                       exc |-> email_svc.exc, msg |-> email_svc.msg]
                 ELSE IF made.exc # ""
                      THEN [heap |-> made.heap, instances |-> inst,
                            exc |-> made.exc, msg |-> made.msg]
                      ELSE LoadFromKeepingDependency(i + 1, made.heap,
                               inst \o <<email_svc.ret, made.ret>>, config)
         ELSE LET made == Construct(h, registry[i].cls, 1, config, 0)
              IN IF made.exc # ""
                 THEN [heap |-> made.heap, instances |-> inst,
                       exc |-> made.exc, msg |-> made.msg]
                 ELSE LoadFromKeepingDependency(i + 1, made.heap,
                          Append(inst, made.ret), config)

RECURSIVE LoadFrom(_, _, _, _)
\* The loop of ServiceManager.load_services from registry entry i on.
LoadFrom(i, h, inst, config) ==
    IF i > Len(registry)
    THEN [heap |-> h, instances |-> inst, exc |-> "", msg |-> ""]
    ELSE IF registry[i].name = "NotificationService"
         THEN LET email_svc == get_service(h, "EmailService", config)
                  made == Construct(email_svc.heap, registry[i].cls, 2, config, email_svc.ret)
              IN IF email_svc.exc # ""
                 THEN [heap |-> email_svc.heap, instances |-> inst,
                       exc |-> email_svc.exc, msg |-> email_svc.msg]
                 ELSE IF made.exc # ""
                      THEN [heap |-> made.heap, instances |-> inst,
                            exc |-> made.exc, msg |-> made.msg]
                      ELSE LoadFrom(i + 1, made.heap, Append(inst, made.ret), config)
         ELSE LET made == Construct(h, registry[i].cls, 1, config, 0)
              IN IF made.exc # ""
                 THEN [heap |-> made.heap, instances |-> inst,
                       exc |-> made.exc, msg |-> made.msg]
                 ELSE LoadFrom(i + 1, made.heap, Append(inst, made.ret), config)

\* load_services restoring instances when the loop fails.
load_services_atomic(config) ==
    LET r == LoadFrom(1, heap, instances, config)
    IN IF r.exc # "" THEN [r EXCEPT !.instances = instances] ELSE r

\* load_services starting from an empty list instead of the manager's.
load_services_resetting(config) == LoadFrom(1, heap, <<>>, config)

\* ServiceManager.load_services
load_services(config) == LoadFrom(1, heap, instances, config)

RECURSIVE StartDownFrom(_)
\* start_all walking instances in reverse of the stored order.
StartDownFrom(i) ==
    IF i > Len(instances) THEN Ok(<<>>)
    ELSE LET one == Start(heap, instances[Len(instances) + 1 - i])
         IN IF one.exc # "" THEN one
            ELSE LET rest == StartDownFrom(i + 1) IN [rest EXCEPT !.ev = one.ev \o rest.ev]

RECURSIVE StartFromIsolating(_)
\* start_all with each start() wrapped in try/except: a failure is dropped, the loop goes on.
StartFromIsolating(i) ==
    IF i > Len(instances) THEN Ok(<<>>)
    ELSE LET one == Start(heap, instances[i])
             rest == StartFromIsolating(i + 1)
         IN [rest EXCEPT !.ev = one.ev \o rest.ev]

RECURSIVE StartFrom(_), StopFrom(_)
\* The loop of ServiceManager.start_all from position i on.
StartFrom(i) ==
    IF i > Len(instances) THEN Ok(<<>>)
    ELSE LET one == Start(heap, instances[i])
         IN IF one.exc # "" THEN one
            ELSE LET rest == StartFrom(i + 1) IN [rest EXCEPT !.ev = one.ev \o rest.ev]

RECURSIVE StopDownFrom(_)
\* stop_all walking instances in reverse of the stored order.
StopDownFrom(i) ==
    IF i > Len(instances) THEN Ok(<<>>)
    ELSE LET one == Stop(heap, instances[Len(instances) + 1 - i])
         IN IF one.exc # "" THEN one
            ELSE LET rest == StopDownFrom(i + 1) IN [rest EXCEPT !.ev = one.ev \o rest.ev]

\* The loop of ServiceManager.stop_all from position i on.
StopFrom(i) ==
    IF i > Len(instances) THEN Ok(<<>>)
    ELSE LET one == Stop(heap, instances[i])
         IN IF one.exc # "" THEN one
            ELSE LET rest == StopFrom(i + 1) IN [rest EXCEPT !.ev = one.ev \o rest.ev]

\* ServiceManager.start_all
start_all == StartFrom(1)

\* stop_all with the loop body of start_all pasted in: it calls start() again.
stop_all_calling_start == StartFrom(1)

\* ServiceManager.stop_all
stop_all == StopFrom(1)

\* The calls made so far, in order.
\* The elements of a sequence.
Range(f) == {f[i] : i \in DOMAIN f}

Ops(tr) == SelectSeq(tr, LAMBDA e : e.k = "call")

Finish(op, exc) == IF exc = "" THEN Return(op) ELSE Raise(op)

\* manager.load_services(config)
LoadServices(config) ==
    LET r == load_services(config)
    IN /\ Len(Ops(trace)) < MaxOps
       /\ heap' = r.heap
       /\ instances' = r.instances
       /\ trace' = trace \o <<Call("load_services"), Finish("load_services", r.exc)>>
       /\ last' = [NoLast EXCEPT !.op = "load_services", !.cfg = config,
                                 !.exc = r.exc, !.msg = r.msg]
       /\ UNCHANGED <<classes, registry, cfgs, scopes>>

\* manager.get_service(name, config)
GetService(name, config) ==
    LET r == get_service(heap, name, config)
    IN /\ Len(Ops(trace)) < MaxOps
       /\ heap' = r.heap
       /\ trace' = trace \o <<Call("get_service"), Finish("get_service", r.exc)>>
       /\ last' = [NoLast EXCEPT !.op = "get_service", !.name = name, !.cfg = config,
                                 !.exc = r.exc, !.msg = r.msg, !.ret = r.ret]
       /\ UNCHANGED <<classes, registry, cfgs, instances, scopes>>

\* start_all draining self.instances while it walks it.
StartAllDraining ==
    LET r == start_all
    IN /\ Len(Ops(trace)) < MaxOps
       /\ trace' = trace \o <<Call("start_all")>> \o r.ev \o <<Finish("start_all", r.exc)>>
       /\ last' = [NoLast EXCEPT !.op = "start_all", !.exc = r.exc, !.msg = r.msg]
       /\ instances' = <<>>
       /\ UNCHANGED <<classes, registry, cfgs, heap, scopes>>

\* manager.start_all()
StartAll ==
    LET r == start_all
    IN /\ Len(Ops(trace)) < MaxOps
       /\ trace' = trace \o <<Call("start_all")>> \o r.ev \o <<Finish("start_all", r.exc)>>
       /\ last' = [NoLast EXCEPT !.op = "start_all", !.exc = r.exc, !.msg = r.msg]
       /\ UNCHANGED <<classes, registry, cfgs, heap, instances, scopes>>

\* manager.stop_all()
StopAll ==
    LET r == stop_all
    IN /\ Len(Ops(trace)) < MaxOps
       /\ trace' = trace \o <<Call("stop_all")>> \o r.ev \o <<Finish("stop_all", r.exc)>>
       /\ last' = [NoLast EXCEPT !.op = "stop_all", !.exc = r.exc, !.msg = r.msg]
       /\ UNCHANGED <<classes, registry, cfgs, heap, instances, scopes>>

(***************************************************************************)
(* Scoped use: `with service: body`.                                       *)
(***************************************************************************)
\* BaseService.__enter__: start(), then return self.
BaseService__enter__(h, o) == Start(h, o)

\* __exit__ returning True: the body's exception is swallowed.
BaseService__exit__returning_true(h, o) ==
    LET r == Stop(h, o) IN [ev |-> r.ev, exc |-> r.exc, msg |-> r.msg, swallow |-> TRUE]

\* BaseService.__exit__: stop(); it returns None, so the body's exception is not swallowed.
BaseService__exit__(h, o) ==
    LET r == Stop(h, o) IN [ev |-> r.ev, exc |-> r.exc, msg |-> r.msg, swallow |-> FALSE]

Body(o, raises) == [k |-> "body", o |-> o, s |-> IF raises THEN "raise" ELSE "ok"]

\* `with o:` up to the body: __enter__ runs; when it raises, the statement ends there and
\* neither the body nor __exit__ runs.
Enter(o) ==
    LET r == BaseService__enter__(heap, o)
    IN /\ Len(Ops(trace)) < MaxOps
       /\ Len(scopes) < MaxScopes
       /\ trace' = trace \o <<Call("with")>> \o r.ev
                         \o (IF r.exc # "" THEN <<Raise("with")>> ELSE <<>>)
       /\ scopes' = IF r.exc # "" THEN scopes ELSE Append(scopes, o)
       /\ last' = [NoLast EXCEPT !.op = "enter", !.ret = o, !.exc = r.exc, !.msg = r.msg]
       /\ UNCHANGED <<classes, registry, cfgs, heap, instances>>

\* The body of the innermost with statement ends, normally or by raising BodyError, and
\* __exit__ runs: an exception of stop() replaces the body's, and the body's propagates
\* unless __exit__ returned a true value.
Exit(raises) ==
    LET o == scopes[Len(scopes)]
        r == BaseService__exit__(heap, o)
        exc == IF r.exc # "" THEN r.exc
               ELSE IF raises /\ ~r.swallow THEN "BodyError" ELSE ""
    IN /\ scopes # <<>>
       /\ trace' = trace \o <<Body(o, raises)>> \o r.ev \o <<Finish("with", exc)>>
       /\ scopes' = SubSeq(scopes, 1, Len(scopes) - 1)
       /\ last' = [NoLast EXCEPT !.op = "with", !.ret = o, !.exc = exc, !.msg = r.msg,
                                 !.name = IF raises THEN "raise" ELSE "ok"]
       /\ UNCHANGED <<classes, registry, cfgs, heap, instances>>

(***************************************************************************)
(* Calls made on one service object.                                       *)
(***************************************************************************)
\* BaseService.__call__: return self.start()
BaseService__call__(h, o) == Start(h, o)

\* service()
CallService(o) ==
    LET r == BaseService__call__(heap, o)
    IN /\ Len(Ops(trace)) < MaxOps
       /\ trace' = trace \o <<Call("__call__")>> \o r.ev \o <<Finish("__call__", r.exc)>>
       /\ last' = [NoLast EXCEPT !.op = "__call__", !.exc = r.exc, !.msg = r.msg]
       /\ UNCHANGED <<classes, registry, cfgs, heap, instances, scopes>>

\* service.start()
StartService(o) ==
    LET r == Start(heap, o)
    IN /\ Len(Ops(trace)) < MaxOps
       /\ trace' = trace \o <<Call("start")>> \o r.ev \o <<Finish("start", r.exc)>>
       /\ last' = [NoLast EXCEPT !.op = "start", !.exc = r.exc, !.msg = r.msg]
       /\ UNCHANGED <<classes, registry, cfgs, heap, instances, scopes>>

\* service.stop()
StopService(o) ==
    LET r == Stop(heap, o)
    IN /\ Len(Ops(trace)) < MaxOps
       /\ trace' = trace \o <<Call("stop")>> \o r.ev \o <<Finish("stop", r.exc)>>
       /\ last' = [NoLast EXCEPT !.op = "stop", !.exc = r.exc, !.msg = r.msg]
       /\ UNCHANGED <<classes, registry, cfgs, heap, instances, scopes>>

(***************************************************************************)
(* Specifications.                                                         *)
(***************************************************************************)
Init ==
    /\ classes = <<>>
    /\ registry = <<>>
    /\ cfgs = <<>>
    /\ heap = <<>>
    /\ instances = <<>>
    /\ trace = <<>>
    /\ scopes = <<>>
    /\ last = NoLast

\* The class statements of app.py.
AppDefs ==
    {<<"TestService", "TestService">>, <<"EmailService", "EmailService">>,
     <<"NotificationService", "NotificationService">>}

\* The same, plus a class named TestService that carries NotificationService's body, and
\* a class named EmailService that overrides both hooks with ones that raise.
ServiceDefs ==
    AppDefs \cup {<<"TestService", "NotificationService">>,
                  <<"EmailService", "FailingService">>}

\* Names asked of get_service.
LookupNames == {"EmailService", "NotificationService", "NoSuchService"}

\* Class statements run while their module is imported, before the run builds
\* its configuration and its manager (run.py line 1, then lines 3-4).
Import(defs) ==
    /\ cfgs = <<>>
    /\ trace = <<>>
    /\ \E d \in defs : DefineClass(d[1], d[2])

\* The names of the service classes of app.py, in the order of their class statements.
AppOrder == <<"TestService", "EmailService", "NotificationService">>

\* The import of app.py itself: its class statements run one after the other.
ImportApp ==
    /\ cfgs = <<>>
    /\ trace = <<>>
    /\ Len(classes) < Len(AppOrder)
    /\ DefineClass(AppOrder[Len(classes) + 1], AppOrder[Len(classes) + 1])

\* run.py line 3: config = ServerConfig("localhost", 8000)
Configure ==
    /\ trace = <<>>
    /\ NewConfig(StrVal("localhost"), IntVal(8000))

\* The manager's run: load_services, start_all and stop_all in any order and number.
Next ==
    \/ Import(ServiceDefs)
    \/ Configure
    \/ \E c \in 0..Len(cfgs) : LoadServices(c)
    \/ StartAll
    \/ StopAll

Spec == Init /\ [][Next]_vars

\* Lookups by name, beside loading.
NextLookup ==
    \/ Import(AppDefs)
    \/ Configure
    \/ \E c \in 0..Len(cfgs) : LoadServices(c)
    \/ \E name \in LookupNames, c \in 0..Len(cfgs) : GetService(name, c)

SpecLookup == Init /\ [][NextLookup]_vars

\* Use of the services the manager built: with statements, whose body may stop the
\* manager's services, and calls made on one service.
NextScoped ==
    \/ ImportApp
    \/ Configure
    \/ \E c \in 0..Len(cfgs) : LoadServices(c)
    \/ \E o \in 1..Len(heap) : Enter(o)
    \/ \E raises \in BOOLEAN : Exit(raises)
    \/ \E o \in 1..Len(heap) : CallService(o)
    \/ \E o \in 1..Len(heap) : StartService(o)
    \/ \E o \in 1..Len(heap) : StopService(o)
    \/ StartAll
    \/ StopAll

SpecScoped == Init /\ [][NextScoped]_vars

\* Every operation of the manager; lookups are given a config of run.py.
NextManager ==
    \/ Import(AppDefs)
    \/ Configure
    \/ \E c \in 0..Len(cfgs) : LoadServices(c)
    \/ \E name \in LookupNames, c \in 1..Len(cfgs) : GetService(name, c)
    \/ StartAll
    \/ StopAll

SpecManager == Init /\ [][NextManager]_vars

\* Class statements alone, over every name and body.
NextRegistry == \E name \in ClassNames, body \in Bodies : DefineClass(name, body)

SpecRegistry == Init /\ [][NextRegistry]_vars

\* The configuration holder alone.
NextConfig ==
    \/ \E h \in HostInputs, p \in PortInputs : NewConfig(h, p)
    \/ \E c \in 1..Len(cfgs), v \in HostInputs : SetField(c, "host", v)
    \/ \E c \in 1..Len(cfgs), v \in PortInputs : SetField(c, "port", v)
    \/ \E c \in 1..Len(cfgs), f \in {"host", "port"} : GetField(c, f)

SpecConfig == Init /\ [][NextConfig]_vars
(***************************************************************************)
(* Vocabulary of the properties.                                           *)
(***************************************************************************)
OpNames(tr) == [i \in 1..Len(Ops(tr)) |-> Ops(tr)[i].s]

\* The outcomes of the calls made so far, in order.
Outcomes(tr) ==
    LET done == SelectSeq(tr, LAMBDA e : e.k \in {"return", "raise"})
    IN [i \in 1..Len(done) |-> done[i].k]

\* Positions of the trace where method ("start" or "stop") was invoked on object o.
Invocations(tr, method, o) == {i \in 1..Len(tr) : tr[i] = Invoke(method, o)}

\* Positions of the trace where the given line was printed (by anyone).
Printed(tr, line) == {i \in 1..Len(tr) : tr[i].k = "print" /\ tr[i].s = line}

\* Positions of the trace where object o printed something.
PrintedBy(tr, o) == {i \in 1..Len(tr) : tr[i].k = "print" /\ tr[i].o = o}

\* Position of the most recent call.
LastCall(tr) ==
    CHOOSE i \in 1..Len(tr) :
        /\ tr[i].k = "call"
        /\ \A j \in (i + 1)..Len(tr) : tr[j].k # "call"

RegistryOrder == [i \in 1..Len(registry) |-> registry[i].name]

\* The registry holds the classes of app.py, as app.py defines them.
AppRegistry ==
    /\ RegistryOrder = <<"TestService", "EmailService", "NotificationService">>
    /\ \A i \in 1..3 : classes[registry[i].cls].body = registry[i].name

\* The end-to-end scenario of run.py: the calls made on the app.py registry with
\* ServerConfig("localhost", 8000), each having returned normally.
Scenario(ops) ==
    /\ AppRegistry
    /\ OpNames(trace) = ops
    /\ Outcomes(trace) = [i \in 1..Len(ops) |-> "return"]
    /\ Len(instances) = 3
    /\ \A i \in 1..3 :
          /\ heap[instances[i]].config # 0
          /\ cfgs[heap[instances[i]].config] =
                [host |-> StrVal("localhost"), port |-> IntVal(8000)]

RunOps == <<"load_services", "start_all", "stop_all">>

\* Every instance was started exactly once and stopped exactly once, start first.
OneStartThenOneStop ==
    \A o \in Range(instances) :
        /\ Cardinality(Invocations(trace, "start", o)) = 1
        /\ Cardinality(Invocations(trace, "stop", o)) = 1
        /\ \A i \in Invocations(trace, "start", o), j \in Invocations(trace, "stop", o) : i < j

(***************************************************************************)
(* C1. load_services; start_all; stop_all starts and stops every instance  *)
(* exactly once, its start before its stop.                                *)
(***************************************************************************)
\* C1 as stated: whenever load_services succeeded and start_all and stop_all were then
\* called, every instance of the manager has had exactly one start() and exactly one
\* stop(), the start first.
C1_AsStated ==
    (OpNames(trace) = RunOps /\ Outcomes(trace)[1] = "return") => OneStartThenOneStop

\* C1, amended: when load_services, start_all and stop_all each returned normally,
\* every instance of the manager has had exactly one start() and exactly one stop(),
\* the start first.
C1_RunStartsAndStopsEachOnce ==
    (OpNames(trace) = RunOps /\ Outcomes(trace) = <<"return", "return", "return">>)
        => OneStartThenOneStop

C1_Witness ==
    /\ OpNames(trace) = RunOps
    /\ Outcomes(trace) = <<"return", "return", "return">>
    /\ Len(instances) = 3
    /\ \E i \in 1..3 : heap[instances[i]].email # 0

(***************************************************************************)
(* C2. The email dependency of a NotificationService built by              *)
(* load_services is a fresh instance of the registered EmailService class, *)
(* is no element of instances and is never appended to instances.          *)
(***************************************************************************)
\* C2: every object that holds an email dependency (load_services alone builds such
\* objects) holds an instance of the class registered as "EmailService", built with the
\* same config right before it, held by no other object and absent from instances.
C2_DependencyIsFreshAndUnregistered ==
    \A o \in 1..Len(heap) :
        heap[o].email # 0 =>
            LET e == heap[o].email
            IN /\ e = o - 1
               /\ heap[e].cls = RegistryGet(registry, "EmailService")
               /\ heap[e].config = heap[o].config
               /\ e \notin Range(instances)
               /\ \A q \in 1..Len(heap) : (q # o) => heap[q].email # e

C2_Witness ==
    /\ last.op = "load_services"
    /\ last.exc = ""
    /\ \E i, j \in 1..Len(instances) :
          /\ ClassOf(heap, instances[i]).name = "EmailService"
          /\ ClassOf(heap, instances[j]).name = "NotificationService"
          /\ heap[instances[j]].email # 0
          /\ heap[instances[j]].email # instances[i]

(***************************************************************************)
(* C3. In the end-to-end scenario start_all prints the notification line   *)
(* before EmailService's startup output.                                   *)
(***************************************************************************)
NotificationRunning == "Notification service running at localhost:8000"
EmailStartup == <<"Connecting to SMTP...", "EmailService started.">>

\* What object o printed, in order.
LinesOf(tr, o) ==
    LET mine == SelectSeq(tr, LAMBDA e : e.k = "print" /\ e.o = o)
    IN [i \in 1..Len(mine) |-> mine[i].s]

\* C3 as stated: after load_services and start_all in the end-to-end scenario, the
\* notification line (with or without the logger's prefix) is in the output and no
\* EmailService startup output appears earlier than it.
C3_AsStated ==
    Scenario(<<"load_services", "start_all">>) =>
        \E i \in Printed(trace, NotificationRunning)
                 \cup Printed(trace, "[LOG]: " \o NotificationRunning) :
            \A j \in 1..(i - 1) :
                ~(trace[j].k = "print" /\ trace[j].s \in Range(EmailStartup))

\* C3, amended: in the end-to-end scenario start_all prints the line
\* "[LOG]: Notification service running at localhost:8000" exactly once; the startup
\* output of the manager's own EmailService instance comes before it, and the startup
\* output of the NotificationService's own EmailService dependency comes after it.
C3_NotificationLineBetweenTheTwoEmailStartups ==
    Scenario(<<"load_services", "start_all">>) =>
        LET own == instances[2]
            notif == instances[3]
            dep == heap[notif].email
            at == Printed(trace, "[LOG]: " \o NotificationRunning)
        IN /\ Cardinality(at) = 1
           /\ Printed(trace, NotificationRunning) = {}
           /\ at \subseteq PrintedBy(trace, notif)
           /\ LinesOf(trace, own) = EmailStartup
           /\ LinesOf(trace, dep) = EmailStartup
           /\ \A i \in at :
                 /\ \A j \in PrintedBy(trace, own) : j < i
                 /\ \A j \in PrintedBy(trace, dep) : i < j

C3_Witness ==
    /\ Scenario(<<"load_services", "start_all">>)
    /\ Printed(trace, "[LOG]: " \o NotificationRunning) # {}
    /\ last.op = "start_all"

(***************************************************************************)
(* C4. In the end-to-end scenario stop_all prints the notification's       *)
(* stopping line before EmailService's shutdown output.                    *)
(***************************************************************************)
NotificationStoppingClaimed == "Notification service stopping..."
EmailShutdown == <<"Closing SMTP...", "EmailService stopped.">>

\* C4 as stated: after load_services, start_all and stop_all in the end-to-end
\* scenario, the line "Notification service stopping..." (with or without the logger's
\* prefix) is in the output and no EmailService shutdown output appears earlier than it.
C4_AsStated ==
    Scenario(RunOps) =>
        \E i \in Printed(trace, NotificationStoppingClaimed)
                 \cup Printed(trace, "[LOG]: " \o NotificationStoppingClaimed) :
            \A j \in 1..(i - 1) :
                ~(trace[j].k = "print" /\ trace[j].s \in Range(EmailShutdown))

\* C4, amended: in the end-to-end scenario stop_all prints the line
\* "[LOG]: Notification stopping..." exactly once; the shutdown output of the manager's
\* own EmailService instance comes before it, and the shutdown output of the
\* NotificationService's own EmailService dependency comes after it.
C4_StoppingLineBetweenTheTwoEmailShutdowns ==
    Scenario(RunOps) =>
        LET own == instances[2]
            notif == instances[3]
            dep == heap[notif].email
            at == Printed(trace, "[LOG]: Notification stopping...")
        IN /\ Cardinality(at) = 1
           /\ at \subseteq PrintedBy(trace, notif)
           /\ LinesOf(trace, own) = EmailStartup \o EmailShutdown
           /\ LinesOf(trace, dep) = EmailStartup \o EmailShutdown
           /\ \A i \in at :
                 /\ \A j \in PrintedBy(trace, own) : j < i
                 /\ \A j \in PrintedBy(trace, dep) :
                       trace[j].s \in Range(EmailShutdown) => i < j

C4_Witness ==
    /\ Scenario(RunOps)
    /\ Printed(trace, "[LOG]: Notification stopping...") # {}
    /\ last.op = "stop_all"

(***************************************************************************)
(* C5. A successful load_services on a fresh manager appends one instance  *)
(* per registry entry, in registry order.                                  *)
(***************************************************************************)
LoadCalls == {i \in 1..Len(trace) : trace[i] = Call("load_services")}

\* C5: right after the first load_services of a manager returned normally, instances
\* holds one object per registry entry, the i-th an instance of the i-th registered
\* class, all distinct; for the registry of app.py that is 3 instances.
C5_OneInstancePerEntryInOrder ==
    (last.op = "load_services" /\ last.exc = "" /\ Cardinality(LoadCalls) = 1) =>
        /\ Len(instances) = Len(registry)
        /\ \A i \in 1..Len(instances) : heap[instances[i]].cls = registry[i].cls
        /\ \A i, j \in 1..Len(instances) : instances[i] = instances[j] => i = j
        /\ AppRegistry => Len(instances) = 3

C5_Witness ==
    /\ last.op = "load_services"
    /\ last.exc = ""
    /\ Cardinality(LoadCalls) = 1
    /\ AppRegistry
    /\ Len(instances) = 3

(***************************************************************************)
(* C7. Wiring a NotificationService while "EmailService" is not registered *)
(* fails with a lookup error and builds no NotificationService.            *)
(***************************************************************************)
\* load_services gets as far as the "NotificationService" entry: every entry before it
\* is a class that is built from the config alone.
ReachesNotification ==
    \A i \in 1..Len(registry) :
        (\E j \in (i + 1)..Len(registry) : registry[j].name = "NotificationService")
            => classes[registry[i].cls].body # "NotificationService"

\* C7: while the registry holds "NotificationService" and not "EmailService", no
\* instance of a class named NotificationService exists or is in instances, and a
\* load_services that reaches the wiring fails with KeyError "Service 'EmailService'
\* not found".
C7_MissingEmailServiceIsALookupError ==
    ("NotificationService" \in RegistryNames(registry)
        /\ "EmailService" \notin RegistryNames(registry)) =>
        /\ \A o \in 1..Len(heap) : ClassOf(heap, o).name # "NotificationService"
        /\ (last.op = "load_services" /\ ReachesNotification) =>
              /\ last.exc = "KeyError"
              /\ last.msg = "Service 'EmailService' not found"

C7_Witness ==
    /\ "NotificationService" \in RegistryNames(registry)
    /\ "EmailService" \notin RegistryNames(registry)
    /\ last.op = "load_services"
    /\ last.exc = "KeyError"
    /\ Len(instances) = 1

(***************************************************************************)
(* C6. get_service returns a new instance holding config for a registered  *)
(* name and fails with KeyError for an absent one.                         *)
(***************************************************************************)
\* C6 as stated: right after get_service(name, config), if name is a key of the
\* registry the call returned a new object (the newest of the heap, referenced by
\* nothing) of the registered class holding config, and otherwise it raised KeyError.
C6_AsStated ==
    last.op = "get_service" =>
        IF last.name \in RegistryNames(registry)
        THEN /\ last.exc = ""
             /\ last.ret = Len(heap)
             /\ last.ret >= 1
             /\ heap[last.ret].cls = RegistryGet(registry, last.name)
             /\ heap[last.ret].config = last.cfg
             /\ last.ret \notin Range(instances)
             /\ \A q \in 1..Len(heap) : heap[q].email # last.ret
        ELSE /\ last.exc = "KeyError"
             /\ last.ret = 0

(***************************************************************************)
(* C8. Every assignment to host or port is type-checked.                   *)
(***************************************************************************)
NonString(v) == v.t # "str"

\* Python's bool is an int: True passes isinstance(value, int).
NonInteger(v) == v.t \notin {"int", "bool"}

WrongType(field, v) == IF field = "host" THEN NonString(v) ELSE NonInteger(v)

\* C8: a reassignment of host or port with a value of the wrong type raises TypeError
\* naming the field and the expected type, one with a valid value succeeds and the
\* field then reads as that value; the constructor raises TypeError and yields no
\* object when either argument has the wrong type, and otherwise yields an object whose
\* fields read as the arguments; no object ever holds a value of the wrong type.
C8_EveryAssignmentIsTypeChecked ==
    /\ last.op = "set" =>
          IF WrongType(last.name, last.val)
          THEN /\ last.exc = "TypeError"
               /\ last.msg = (IF last.name = "host" THEN "Expected <class 'str'> for host"
                              ELSE "Expected <class 'int'> for port")
          ELSE /\ last.exc = ""
               /\ Typed__get__(cfgs[last.cfg], last.name) = last.val
    /\ last.op = "ServerConfig" =>
          IF NonString(last.val) \/ NonInteger(last.val2)
          THEN /\ last.exc = "TypeError"
               /\ last.ret = 0
          ELSE /\ last.exc = ""
               /\ last.ret = Len(cfgs)
               /\ Typed__get__(cfgs[last.ret], "host") = last.val
               /\ Typed__get__(cfgs[last.ret], "port") = last.val2
    /\ \A c \in 1..Len(cfgs) :
          /\ ~NonString(Typed__get__(cfgs[c], "host"))
          /\ ~NonInteger(Typed__get__(cfgs[c], "port"))

C8_Witness ==
    /\ last.op = "set"
    /\ last.name = "port"
    /\ last.val = StrVal("8000")
    /\ last.exc = "TypeError"

(***************************************************************************)
(* C9. The registry maps every defined name but "BaseService" to the most  *)
(* recently defined class of that name.                                    *)
(***************************************************************************)
DefinedNames == {classes[i].name : i \in 1..Len(classes)}

\* The class most recently defined under the name.
Latest(name) ==
    CHOOSE i \in 1..Len(classes) :
        /\ classes[i].name = name
        /\ \A j \in (i + 1)..Len(classes) : classes[j].name # name

\* C9: the keys of the registry are the names defined so far other than "BaseService",
\* each key has exactly one entry, that entry is the most recently defined class of the
\* name, and no class statement raises.
C9_RegistryHoldsLatestClassPerName ==
    /\ RegistryNames(registry) = DefinedNames \ {"BaseService"}
    /\ \A n \in RegistryNames(registry) :
          /\ Cardinality({i \in 1..Len(registry) : registry[i].name = n}) = 1
          /\ RegistryGet(registry, n) = Latest(n)
    /\ last.op = "class" => (last.exc = "" /\ last.ret = Len(classes))

C9_Witness ==
    /\ "BaseService" \in DefinedNames
    /\ \E i, j \in 1..Len(classes) :
          /\ i < j
          /\ classes[i].name = classes[j].name
          /\ classes[i].name # "BaseService"
          /\ RegistryGet(registry, classes[i].name) = j

(***************************************************************************)
(* C10. A service used as a scoped resource.                               *)
(***************************************************************************)
\* The events a step appends to the trace.
Appended == SubSeq(trace', Len(trace) + 1, Len(trace'))

\* Positions of the appended events where method was invoked on o, and where a body ended.
InvokedNow(method, o) == {i \in 1..Len(Appended) : Appended[i] = Invoke(method, o)}
BodyRuns == {i \in 1..Len(Appended) : Appended[i].k = "body"}

\* o printed its own "<Name> started." / "<Name> stopped." line among the appended events.
CompletedNow(o, word) ==
    \E i \in 1..Len(Appended) : Appended[i] = Line(o, ClassOf(heap, o).name \o " " \o word)

\* Entering the scope calls start() on o, once and first; when it completes the body is
\* running next, and when it fails the statement ends with that failure: no body runs
\* and stop() is not called.
EnteringStartsOnce ==
    last'.op = "enter" =>
        LET o == last'.ret
        IN /\ Appended[1] = Call("with")
           /\ InvokedNow("start", o) = {2}
           /\ InvokedNow("stop", o) = {}
           /\ BodyRuns = {}
           /\ IF CompletedNow(o, "started.")
              THEN /\ last'.exc = ""
                   /\ scopes' = Append(scopes, o)
                   /\ Appended[Len(Appended)].k = "print"
              ELSE /\ last'.exc \notin {"", "BodyError"}
                   /\ scopes' = scopes
                   /\ Appended[Len(Appended)] = Raise("with")

\* Leaving the scope, the body having ended normally or with an exception, calls stop()
\* on o exactly once, and the statement raises the body's exception if there was one.
LeavingStopsOnce ==
    last'.op = "with" =>
        LET o == scopes[Len(scopes)]
        IN /\ scopes # <<>>
           /\ last'.ret = o
           /\ scopes' = SubSeq(scopes, 1, Len(scopes) - 1)
           /\ BodyRuns = {1}
           /\ InvokedNow("stop", o) = {2}
           /\ InvokedNow("start", o) = {}
           /\ IF CompletedNow(o, "stopped.")
              THEN /\ last'.exc = (IF Appended[1].s = "raise" THEN "BodyError" ELSE "")
                   /\ Appended[Len(Appended)] = Finish("with", last'.exc)
              ELSE /\ last'.exc \notin {"", "BodyError"}
                   /\ Appended[Len(Appended)] = Raise("with")

\* Only a scope whose start() was called by the with statement has a body running.
ScopesWereEntered ==
    \A i \in 1..Len(scopes) :
        \E p \in 1..(Len(trace) - 1) :
            trace[p] = Call("with") /\ trace[p + 1] = Invoke("start", scopes[i])

\* C10: `with o:` calls start() on o when the scope is entered; if start() succeeds,
\* stop() is called exactly once when the scope is left, whether the body ended normally
\* or with an exception, and the body's exception still propagates; if start() fails,
\* the body is not run and stop() is not called.
C10_ScopedUseStartsAndStops ==
    [](ScopesWereEntered) /\ [][EnteringStartsOnce /\ LeavingStopsOnce]_vars

\* A with statement on a NotificationService whose body called stop_all and then raised.
C10_Witness ==
    /\ last.op = "with"
    /\ last.exc = "BodyError"
    /\ ClassOf(heap, last.ret).body = "NotificationService"
    /\ OpNames(trace) = <<"load_services", "with", "stop_all">>
    /\ Cardinality(Invocations(trace, "stop", last.ret)) = 2

\* A with statement whose start() failed.
C10_FailedEnterReached ==
    /\ last.op = "enter"
    /\ last.exc = "AttributeError"
    /\ scopes = <<>>
    /\ trace[Len(trace)] = Raise("with")

\* A scoped use whose start() failed.
C10_FailedStartReached ==
    /\ last.op = "with"
    /\ last.exc = "AttributeError"

(***************************************************************************)
(* C11. start_all and stop_all have no error isolation.                    *)
(***************************************************************************)
\* How often the method was invoked on instances[i] since position c.
InvokedSince(c, method, i) ==
    Cardinality({p \in Invocations(trace, method, instances[i]) : p > c})

\* instances[i] printed its own "<Name> started." / "<Name> stopped." since position c.
AnnouncedSince(c, word, i) ==
    \E p \in (c + 1)..Len(trace) :
        trace[p] = Line(instances[i], ClassOf(heap, instances[i]).name \o " " \o word)

\* C11: right after start_all (resp. stop_all), if the start() (resp. stop()) of the
\* instance at position i was invoked and did not complete, the call raised, every
\* instance before i has had it invoked exactly once and completed, position i exactly
\* once, and no instance after i at all; if none failed the call returned normally with
\* one invocation on every instance.
C11_FailureAbortsTheRemainingIteration ==
    last.op \in {"start_all", "stop_all"} =>
        LET c == LastCall(trace)
            method == IF last.op = "start_all" THEN "start" ELSE "stop"
            word == IF last.op = "start_all" THEN "started." ELSE "stopped."
            failed(i) == InvokedSince(c, method, i) > 0 /\ ~AnnouncedSince(c, word, i)
        IN /\ \A i \in 1..Len(instances) :
                 failed(i) =>
                     /\ last.exc # ""
                     /\ trace[Len(trace)] = Raise(last.op)
                     /\ InvokedSince(c, method, i) = 1
                     /\ \A j \in 1..(i - 1) :
                           InvokedSince(c, method, j) = 1 /\ AnnouncedSince(c, word, j)
                     /\ \A j \in (i + 1)..Len(instances) : InvokedSince(c, method, j) = 0
           /\ (\A i \in 1..Len(instances) : ~failed(i)) =>
                 /\ last.exc = ""
                 /\ trace[Len(trace)] = Return(last.op)
                 /\ \A i \in 1..Len(instances) : InvokedSince(c, method, i) = 1

\* A stop_all that failed in the middle: one instance stopped, one failed, one untouched.
C11_Witness ==
    /\ last.op = "stop_all"
    /\ last.exc = "RuntimeError"
    /\ Len(instances) = 3
    /\ InvokedSince(LastCall(trace), "stop", 1) = 1
    /\ InvokedSince(LastCall(trace), "stop", 2) = 1
    /\ InvokedSince(LastCall(trace), "stop", 3) = 0

\* A start_all that failed in the middle.
C11_FailedStartAllReached ==
    /\ last.op = "start_all"
    /\ last.exc = "AttributeError"
    /\ Len(instances) = 3
    /\ InvokedSince(LastCall(trace), "start", 2) = 1
    /\ InvokedSince(LastCall(trace), "start", 3) = 0

(***************************************************************************)
(* C12. instances is mutated by load_services alone, and no manager        *)
(* operation modifies the registry.                                        *)
(***************************************************************************)
\* The step is a call of the manager method op.
IsCall(op) ==
    /\ Len(trace') > Len(trace)
    /\ trace'[Len(trace) + 1] = Call(op)

\* C12: every start_all, stop_all and get_service step, returning or raising, leaves
\* instances as it was, and these and every load_services step leave the registry and
\* the classes as they were.
C12_OnlyLoadServicesMutatesInstances ==
    [][/\ (IsCall("start_all") \/ IsCall("stop_all") \/ IsCall("get_service"))
            => instances' = instances
       /\ (IsCall("start_all") \/ IsCall("stop_all") \/ IsCall("get_service")
              \/ IsCall("load_services"))
            => (registry' = registry /\ classes' = classes)]_vars

\* A get_service that raised and a manager that holds instances.
C12_Witness ==
    /\ last.op = "get_service"
    /\ last.exc = "KeyError"
    /\ Len(instances) = 3
    /\ Len(registry) = 3

\* A start_all that raised on a manager that holds instances.
C12_FailedStartAllReached ==
    /\ last.op = "start_all"
    /\ last.exc = "AttributeError"
    /\ Len(instances) = 3

(***************************************************************************)
(* C13. The end-to-end run involves two EmailService objects, each started *)
(* once and stopped once.                                                  *)
(***************************************************************************)
EmailObjects == {o \in 1..Len(heap) : ClassOf(heap, o).name = "EmailService"}

\* C13: after load_services, start_all and stop_all in the end-to-end scenario there are
\* exactly two EmailService objects, the manager's own and the NotificationService's
\* dependency, and each has had start() exactly once and stop() exactly once.
C13_TwoEmailServicesEachStoppedOnce ==
    Scenario(RunOps) =>
        /\ EmailObjects = {instances[2], heap[instances[3]].email}
        /\ Cardinality(EmailObjects) = 2
        /\ \A e \in EmailObjects :
              /\ Cardinality(Invocations(trace, "start", e)) = 1
              /\ Cardinality(Invocations(trace, "stop", e)) = 1

C13_Witness ==
    /\ Scenario(RunOps)
    /\ last.op = "stop_all"
    /\ Cardinality(EmailObjects) = 2
    /\ \A e \in EmailObjects : Invocations(trace, "stop", e) # {}

(***************************************************************************)
(* C14. start_all and stop_all visit instances in stored order.            *)
(***************************************************************************)
\* Positions since c of what instances[i] and its dependency did.
ActivityOf(c, i) ==
    {p \in (c + 1)..Len(trace) :
        /\ trace[p].o # 0
        /\ trace[p].o \in {instances[i], heap[instances[i]].email}}

\* C14: right after start_all (resp. stop_all), for positions i < j of instances,
\* everything instances[i] and its dependency did in the call comes before everything
\* instances[j] and its dependency did, and start() (resp. stop()) of instances[i] was
\* reached whenever that of instances[j] was.
C14_StoredOrderForStartAndStop ==
    last.op \in {"start_all", "stop_all"} =>
        LET c == LastCall(trace)
            method == IF last.op = "start_all" THEN "start" ELSE "stop"
        IN \A i, j \in 1..Len(instances) :
              i < j =>
                 /\ \A p \in ActivityOf(c, i), q \in ActivityOf(c, j) : p < q
                 /\ InvokedSince(c, method, j) > 0 => InvokedSince(c, method, i) > 0

C14_Witness ==
    /\ last.op = "stop_all"
    /\ last.exc = ""
    /\ Len(instances) = 3
    /\ \A i \in 1..3 : InvokedSince(LastCall(trace), "stop", i) = 1
    /\ \E i \in 1..3 : heap[instances[i]].email # 0

(***************************************************************************)
(* C15. A NotificationService's lifecycle nests its dependency's.          *)
(***************************************************************************)
\* The first position after p that is not a line printed by object d.
EndOfLines(p, d) ==
    CHOOSE q \in (p + 1)..Len(trace) :
        /\ ~(trace[q].k = "print" /\ trace[q].o = d)
        /\ \A x \in (p + 1)..(q - 1) : trace[x].k = "print" /\ trace[x].o = d

\* From position p, where the method was invoked on n: n's log line, the invocation of
\* the method on the dependency d, d's lines, and then either d's announcement followed
\* by n's, or the exception leaving the call with no announcement of n.
Nested(p, n, method, logged, word) ==
    LET d == heap[n].email
        q == EndOfLines(p + 2, d)
        announced == trace[q - 1] = Line(d, ClassOf(heap, d).name \o " " \o word)
    IN /\ trace[p + 1] = Line(n, logged)
       /\ trace[p + 2] = Invoke(method, d)
       /\ IF announced
          THEN trace[q] = Line(n, ClassOf(heap, n).name \o " " \o word)
          ELSE trace[q].k = "raise"

\* C15: every start() of an object with an email dependency that gets past reading its
\* config logs, then runs the dependency's whole start(), then announces itself, and every
\* stop() of it logs, runs the dependency's whole stop(), then announces itself; when the
\* dependency's start()/stop() fails the object's announcement is not printed and the
\* exception leaves the call.
C15_NotificationNestsItsDependency ==
    \A p \in 1..Len(trace) :
        (trace[p].k \in {"start", "stop"} /\ heap[trace[p].o].email # 0) =>
            IF trace[p].k = "stop"
            THEN Nested(p, trace[p].o, "stop", "[LOG]: Notification stopping...", "stopped.")
            ELSE IF heap[trace[p].o].config = 0
                 THEN trace[p + 1].k = "raise"
                 ELSE Nested(p, trace[p].o, "start",
                             "[LOG]: Notification service running at localhost:8000",
                             "started.")

\* A stop() whose dependency failed to stop, right after a start() that nested fully.
C15_Witness ==
    /\ last.op = "stop_all"
    /\ last.exc = "RuntimeError"
    /\ \E n \in Range(instances) :
          /\ heap[n].email # 0
          /\ Invocations(trace, "stop", n) # {}
          /\ Invocations(trace, "stop", heap[n].email) # {}
          /\ PrintedBy(trace, heap[n].email) = {}

\* A start() and a stop() that nested fully.
C15_FullNestingReached ==
    /\ last.op = "stop_all"
    /\ last.exc = ""
    /\ \E n \in Range(instances) :
          /\ heap[n].email # 0
          /\ Printed(trace, "NotificationService started.") \cap PrintedBy(trace, n) # {}
          /\ Printed(trace, "NotificationService stopped.") \cap PrintedBy(trace, n) # {}

(***************************************************************************)
(* C16. A load_services that fails while wiring keeps what it appended.    *)
(***************************************************************************)
\* Position of the "NotificationService" entry in the registry.
NotificationAt == CHOOSE i \in 1..Len(registry) : registry[i].name = "NotificationService"

\* A load_services step that failed with the lookup error left instances as it was
\* before the call, followed by one new object per registry entry that precedes
\* "NotificationService", in registry order.
FailedLoadKeepsEarlierInstances ==
    (last'.op = "load_services" /\ last'.exc = "KeyError") =>
        LET n == Len(instances)
            k == NotificationAt
        IN /\ Len(instances') = n + k - 1
           /\ SubSeq(instances', 1, n) = instances
           /\ \A i \in 1..(k - 1) :
                 /\ instances'[n + i] > Len(heap)
                 /\ heap'[instances'[n + i]].cls = registry[i].cls
                 /\ \A j \in 1..(k - 1) : instances'[n + i] = instances'[n + j] => i = j

\* C16: when load_services fails part-way with the lookup error raised while wiring
\* NotificationService, the instances built for the registry entries before
\* "NotificationService" have been appended and stay in instances; nothing is rolled back.
C16_FailedLoadIsNotRolledBack == [][FailedLoadKeepsEarlierInstances]_vars

\* Two failed loads, each of which left the TestService it had built.
C16_Witness ==
    /\ last.op = "load_services"
    /\ last.exc = "KeyError"
    /\ last.msg = "Service 'EmailService' not found"
    /\ Cardinality(LoadCalls) = 2
    /\ Len(instances) = 2
    /\ instances[1] # instances[2]

(***************************************************************************)
(* C17. load_services only ever appends.                                   *)
(***************************************************************************)
LoadReturns == {i \in 1..Len(trace) : trace[i] = Return("load_services")}
LoadRaises == {i \in 1..Len(trace) : trace[i] = Raise("load_services")}

\* After n calls of load_services, all of which returned normally, instances is n
\* consecutive copies of the registry order, made of pairwise distinct objects.
CopiesOfTheRegistry ==
    (LoadReturns # {} /\ LoadRaises = {}) =>
        LET n == Cardinality(LoadReturns)
            r == Len(registry)
        IN /\ Len(instances) = n * r
           /\ \A c \in 0..(n - 1), i \in 1..r :
                 heap[instances[c * r + i]].cls = registry[i].cls
           /\ \A i, j \in 1..Len(instances) : instances[i] = instances[j] => i = j

\* No step removes or replaces an element of instances.
InstancesOnlyGrow ==
    /\ Len(instances') >= Len(instances)
    /\ SubSeq(instances', 1, Len(instances)) = instances

\* C17: load_services only appends: after n successful calls with a registry of size r,
\* instances has length n*r and is n consecutive copies of the registry order, all
\* elements distinct objects, and no step ever removes or replaces an earlier instance.
C17_LoadServicesOnlyAppends == [](CopiesOfTheRegistry) /\ [][InstancesOnlyGrow]_vars

\* Two successful loads of the three classes of app.py.
C17_Witness ==
    /\ AppRegistry
    /\ last.op = "load_services"
    /\ Cardinality(LoadReturns) = 2
    /\ LoadRaises = {}
    /\ Len(instances) = 6

(***************************************************************************)
(* C18. No lifecycle state is tracked or guarded.                          *)
(***************************************************************************)
StartAllCalls == {i \in 1..Len(trace) : trace[i] = Call("start_all")}
StartAllRaises == {i \in 1..Len(trace) : trace[i] = Raise("start_all")}

\* Number of times start() was invoked on the instance at position i.
Starts(i) == Cardinality(Invocations(trace, "start", instances[i]))

\* The first line the hook of a class body prints.
HookLine(body, method) ==
    CASE body = "TestService" /\ method = "start" -> "TestService is starting up..."
      [] body = "TestService" /\ method = "stop" -> "TestService is shutting down..."
      [] body = "EmailService" /\ method = "start" -> "Connecting to SMTP..."
      [] body = "EmailService" /\ method = "stop" -> "Closing SMTP..."
      [] body = "NotificationService" /\ method = "start" ->
             "[LOG]: Notification service running at localhost:8000"
      [] body = "NotificationService" /\ method = "stop" ->
             "[LOG]: Notification stopping..."

\* Every start() runs on_startup and every stop() runs on_shutdown, whatever came before.
HooksRunEveryTime ==
    \A p \in 1..Len(trace) :
        LET o == trace[p].o
            body == ClassOf(heap, o).body
        IN (/\ trace[p].k \in {"start", "stop"}
            /\ body \in {"TestService", "EmailService", "NotificationService"}
            /\ (body = "NotificationService" /\ trace[p].k = "start") => heap[o].config # 0)
               => trace[p + 1] = Line(o, HookLine(body, trace[p].k))

\* A stop_all made before any start_all is carried out on every instance.
StopAllBeforeStartAllIsAccepted ==
    (/\ last.op = "stop_all"
     /\ StartAllCalls = {}
     /\ \A o \in 1..Len(heap) : ClassOf(heap, o).body # "FailingService")
        => /\ last.exc = ""
           /\ \A i \in 1..Len(instances) : InvokedSince(LastCall(trace), "stop", i) = 1

\* Every stop() of an object with an email dependency calls stop() on the dependency.
DependencyIsAlwaysStopped ==
    \A p \in 1..Len(trace) :
        (trace[p].k = "stop" /\ heap[trace[p].o].email # 0)
            => trace[p + 2] = Invoke("stop", heap[trace[p].o].email)

\* C18 as stated: after any k calls of start_all on the instances of one load_services,
\* each instance has had start() invoked exactly k times.
C18_AsStated ==
    LoadCalls = {1} =>
        \A i \in 1..Len(instances) : Starts(i) = Cardinality(StartAllCalls)

\* C18, amended: no lifecycle state is tracked or guarded: every start() runs on_startup
\* and every stop() runs on_shutdown regardless of history; after k calls of start_all
\* that each returned normally, on the instances of one load_services, each instance has
\* had start() invoked exactly k times; stop_all before any start_all is accepted; and the
\* stop() of a NotificationService always calls stop() on its dependency, even when that
\* dependency was never started.
C18_NoLifecycleStateIsGuarded ==
    /\ HooksRunEveryTime
    /\ (LoadCalls = {1} /\ StartAllRaises = {}) =>
          \A i \in 1..Len(instances) : Starts(i) = Cardinality(StartAllCalls)
    /\ StopAllBeforeStartAllIsAccepted
    /\ DependencyIsAlwaysStopped

\* stop_all right after load_services: the dependency is stopped without having started.
C18_Witness ==
    /\ AppRegistry
    /\ OpNames(trace) = <<"load_services", "stop_all">>
    /\ last.exc = ""
    /\ \E n \in Range(instances) :
          /\ heap[n].email # 0
          /\ Invocations(trace, "start", heap[n].email) = {}
          /\ Cardinality(Invocations(trace, "stop", heap[n].email)) = 1

\* Two start_all calls in a row, both carried out on all three instances.
C18_StartedTwiceReached ==
    /\ AppRegistry
    /\ OpNames(trace) = <<"load_services", "start_all", "start_all">>
    /\ StartAllRaises = {}
    /\ \A i \in 1..3 : Starts(i) = 2

(***************************************************************************)
(* C19. A rejected assignment changes nothing.                             *)
(***************************************************************************)
\* A step that is a rejected assignment leaves host and port of every configuration
\* reading as before.
RejectedAssignmentChangesNothing ==
    (last'.op = "set" /\ last'.exc # "") =>
        /\ Len(cfgs') = Len(cfgs)
        /\ \A c \in 1..Len(cfgs) :
              /\ Typed__get__(cfgs'[c], "host") = Typed__get__(cfgs[c], "host")
              /\ Typed__get__(cfgs'[c], "port") = Typed__get__(cfgs[c], "port")

\* C19: after a failed assignment to host (resp. port) of a constructed configuration,
\* both host and port still read as the values they had before the attempt.
C19_RejectedAssignmentHasNoEffect == [][RejectedAssignmentChangesNothing]_vars

\* A rejected assignment of an integer to host, after which both fields read as built.
C19_Witness ==
    /\ last.op = "set"
    /\ last.name = "host"
    /\ last.val = IntVal(8000)
    /\ last.exc = "TypeError"
    /\ Typed__get__(cfgs[last.cfg], "host") = StrVal("localhost")
    /\ Typed__get__(cfgs[last.cfg], "port") = IntVal(8000)

\* A rejected assignment of a string to port, after which both fields read as built.
C19_RejectedPortReached ==
    /\ last.op = "set"
    /\ last.name = "port"
    /\ last.exc = "TypeError"
    /\ Typed__get__(cfgs[last.cfg], "host") = StrVal("localhost")
    /\ Typed__get__(cfgs[last.cfg], "port") = IntVal(8000)

====
